---- MODULE Spec2Model ----
(***************************************************************************)
(* Model of python_scripts_to_commands/wing.py, the concurrent website     *)
(* status checker: get_queue fills a queue.Queue with the URL list,        *)
(* check_website_status starts the get_status worker threads on it, waits  *)
(* for url_queue.join() and then joins every thread.                       *)
(*                                                                         *)
(* queue.Queue is modelled by its two fields that the program observes:    *)
(* the deque of pending items and the unfinished_tasks counter.  Each of   *)
(* its methods runs under the queue's mutex and is one atomic step.        *)
(***************************************************************************)
EXTENDS Integers, Sequences, FiniteSets, TLC

\* Longest URL list the model draws as input.
MaxUrls == 2

\* The URL strings the input lists are built from (opaque to the program).
URLS == {"http://example.com", "not-a-url"}

\* Outcome of requests.get(url, timeout=5) followed by raise_for_status().
Outcomes == {"Success", "HTTPError", "OtherError"}

\* Value of a thread's local names before they are bound, and of its outcome
\* when no request is being handled.
Unset == "<unset>"

VARIABLES
    urls,        \* main: the list returned by load_urls_from_file
    url_queue,   \* the queue.Queue: [items, unfinished_tasks]
    threads,     \* check_website_status: the list of started threads,
                 \* each [pc, url, outcome, report]: position of get_status,
                 \* its local url, the outcome of the request being handled,
                 \* and what excepthook has still to write
    mainpc,      \* position of the main thread
    joined,      \* check_website_status: threads joined so far by the last loop
    stdout,      \* the strings written to sys.stdout, one per write, in order
    stderr,      \* the strings written to sys.stderr, one per write, in order
    dequeued,    \* history: the items returned by q.get(), in order
    task_done_calls,  \* history: number of q.task_done() calls made
    file,        \* the URL file: [exists, decodes, lines], lines being those
                 \* not yet read
    seeker,      \* seeker.py: the arguments, directory and locals of its main
    argv,        \* sys.argv[1:], the command line of wing.py
    args,        \* main: the namespace parse_args returned
    status       \* the exit status of the process once it has exited

vars == <<urls, url_queue, threads, mainpc, joined, stdout, stderr, dequeued,
          task_done_calls, file, seeker, argv, args, status>>

----------------------------------------------------------------------------
(* Input lists *)

RECURSIVE SeqsOfLen(_, _)
SeqsOfLen(S, n) ==
    IF n = 0 THEN {<<>>}
    ELSE {Append(s, x) : s \in SeqsOfLen(S, n - 1), x \in S}

UrlLists == UNION {SeqsOfLen(URLS, n) : n \in 0..MaxUrls}

----------------------------------------------------------------------------
(* queue.Queue *)

\* queue.Queue(): no items, no unfinished tasks.
NewQueue == [items |-> <<>>, unfinished_tasks |-> 0]

\* Mutation: a LIFO queue, put() adds the item at the front.
Put_Prepend(q, item) ==
    [items |-> <<item>> \o q.items, unfinished_tasks |-> q.unfinished_tasks + 1]

\* Queue.put(item): append the item and count it as unfinished.
Put(q, item) ==
    [items |-> Append(q.items, item), unfinished_tasks |-> q.unfinished_tasks + 1]

\* Mutation: the loop never tests the queue (while True).
Empty_Never(q) == FALSE

\* Queue.empty()
Empty(q) == Len(q.items) = 0

\* Queue.get() blocks while there is no item.
GetReady(q) == Len(q.items) > 0

\* Mutation: get() returns the head without removing it.
GetRest_Peek(q) == q

\* Queue.get(): the item returned, and the queue it leaves.
GetItem(q) == Head(q.items)
GetRest(q) == [q EXCEPT !.items = Tail(q.items)]

\* Queue.task_done() raises ValueError when called more often than put().
TaskDoneRaises(q) == q.unfinished_tasks - 1 < 0

\* Mutation: the acknowledgment is made twice.
TaskDoneQueue_Twice(q) == [q EXCEPT !.unfinished_tasks = q.unfinished_tasks - 2]

\* Mutation: the acknowledgment is lost.
TaskDoneQueue_Forgotten(q) == q

\* Queue.task_done(): one unfinished task fewer.
TaskDoneQueue(q) == [q EXCEPT !.unfinished_tasks = q.unfinished_tasks - 1]

\* Mutation: join() waits only for the queue to be empty.
JoinReady_WhenEmpty(q) == Len(q.items) = 0

\* Queue.join() blocks while unfinished_tasks is not zero.
JoinReady(q) == q.unfinished_tasks = 0

\* Mutation: every put is counted twice.
PutAll_CountsTwice(q, us) ==
    [items |-> q.items \o us, unfinished_tasks |-> q.unfinished_tasks + 2 * Len(us)]

\* get_queue(urls): put every url, in list order, on a new queue.
RECURSIVE PutAll(_, _)
PutAll(q, us) ==
    IF us = <<>> THEN q ELSE PutAll(Put(q, Head(us)), Tail(us))

get_queue(us) == PutAll(NewQueue, us)

----------------------------------------------------------------------------
(* get_status: the try / except / else / finally around one request *)

\* Mutation: the try statement has no except Exception clause.
Clause_NoCatchAll(o) ==
    CASE o = "HTTPError" -> "except HTTPError"
      [] OTHER -> "else"

\* The clause of the try statement that handles an outcome.
Clause(o) ==
    CASE o = "HTTPError" -> "except HTTPError"
      [] o = "OtherError" -> "except Exception"
      [] OTHER -> "else"

\* The stream the handling clause writes to.
StreamOf(o) ==
    IF Clause(o) = "else" THEN "stdout" ELSE "stderr"

\* Mutation: every failure is reported with the generic message.
LineOf_GenericError(o, url) ==
    IF o = "Success"
        THEN "Successfully connected to " \o url \o "\n"
        ELSE "Error occurred for " \o url \o "\n"

\* The line the handling clause writes (an f-string ending in a newline).
LineOf(o, url) ==
    CASE Clause(o) = "except HTTPError" -> "HTTP error occurred for " \o url \o "\n"
      [] Clause(o) = "except Exception" -> "Error occurred for " \o url \o "\n"
      [] OTHER -> "Successfully connected to " \o url \o "\n"

\* Mutation: the except HTTPError clause re-raises.
Escapes_HandlerReraises(o) == o = "HTTPError"

\* Whether the exception of an outcome leaves the try statement unhandled
\* (no except clause matches it) and so ends the thread after the finally.
Escapes(o) == o # "Success" /\ Clause(o) = "else"

\* Mutation: the pool is twice as large.
ThreadCount_Doubled == 2 * 4

\* Mutation: the starting loop runs once too often.
ThreadCount_OffByOne == 4 + 1

\* Number of threads check_website_status starts: range(4).
ThreadCount == 4

\* Mutation: the threads are not waited for.
ThreadFinished_NoWait(t) == TRUE

\* Thread.join() returns once the thread's target has returned (or died).
ThreadFinished(t) == t.pc \in {"done", "died"}

\* A thread just started: at the loop test, its locals unbound, no report
\* of an uncaught exception to write.
NewThread == [pc |-> "while", url |-> Unset, outcome |-> Unset, report |-> <<>>]

\* str(n) of a natural number.
RECURSIVE Decimal(_)
Decimal(n) ==
    LET digit == <<"0", "1", "2", "3", "4", "5", "6", "7", "8", "9">>
    IN  IF n < 10 THEN digit[n + 1]
        ELSE Decimal(n \div 10) \o digit[(n % 10) + 1]

\* What traceback.print_exception writes for one frame of the stack: the
\* place, the indentation, the source line and the end of the line, each in
\* a write of its own.
Frame(place, line) == <<"  File " \o place \o "\n", "    ", line, "\n">>

\* The frames of the traceback of a thread that dies in get_status: those
\* of threading.py that called it, then the statement the exception left
\* get_status from, q.task_done() when that raises (its ValueError replaces
\* an exception already on its way out), else the request.
Frames(q, o) ==
    Frame("\".../threading.py\", line 1045, in _bootstrap_inner", "self.run()")
        \o Frame("\".../threading.py\", line 982, in run",
                 "self._target(*self._args, **self._kwargs)")
        \o (IF TaskDoneRaises(q)
                THEN Frame("\".../wing.py\", line 59, in get_status", "q.task_done()")
                         \o Frame("\".../queue.py\", line 75, in task_done",
                                  "raise ValueError('task_done() called too many times')")
                ELSE Frame("\".../wing.py\", line 47, in get_status",
                           "response = requests.get(url, timeout=5)"))

\* The last line of that traceback, as the writes that make it: the type of
\* the exception, the separator, its message and the end of the line.
UncaughtError(q, o) ==
    IF TaskDoneRaises(q)
        THEN <<"ValueError", ": ", "task_done() called too many times", "\n">>
        ELSE IF o = "HTTPError"
                THEN <<"requests.exceptions.HTTPError", ": ", "...", "\n">>
                ELSE <<"Exception", ": ", "...", "\n">>

\* What threading.excepthook writes to sys.stderr when the i-th thread
\* started dies of an exception that leaves get_status, as the sequence of
\* its writes (the empty writes left out); sys.stderr is not locked between
\* them.
ThreadExceptionReport(i, frames, error) ==
    <<"Exception in thread ", "Thread-" \o Decimal(i) \o " (get_status)", ":\n",
      "Traceback (most recent call last):\n">> \o frames \o error

\* The values of args.input: the string given, or the empty list argparse
\* leaves when the string given with the option is the separator "--" (the
\* value field is not used then).
StrValue(s) == [type |-> "str", value |-> s]
EmptyList == [type |-> "list", value |-> ""]

\* main's local args before parse_args has returned.
NoArgs == [input |-> [type |-> "unbound", value |-> ""]]

\* The URL file once load_urls_from_file has read it to the end.
ReadFile == [exists |-> TRUE, decodes |-> TRUE, lines |-> <<>>]

\* main's local args of seeker.py before parse_args has returned, and the
\* namespace parse_args returns: the extension as its sequence of characters
\* and the index flag.
SeekerNoArgs == [bound |-> FALSE, extension |-> <<>>, index |-> FALSE]
Namespace(extension, index) ==
    [bound |-> TRUE, extension |-> extension, index |-> index]

\* seeker.py is not running.
SeekerIdle ==
    [args |-> SeekerNoArgs,
     directory |-> <<>>,
     extension |-> "",
     template |-> <<>>,
     pending |-> <<>>,
     file_count |-> 0,
     status |-> 0]

----------------------------------------------------------------------------
(* Initial state: main has parsed the default command line and loaded the  *)
(* URL list                                                                *)

Init ==
    /\ urls \in UrlLists
    /\ url_queue = NewQueue
    /\ threads = <<>>
    /\ mainpc = "get_queue"
    /\ joined = 0
    /\ stdout = <<>>
    /\ stderr = <<>>
    /\ dequeued = <<>>
    /\ task_done_calls = 0
    /\ file = ReadFile
    /\ seeker = SeekerIdle
    /\ argv = <<>>
    /\ args = [input |-> StrValue("urls.txt")]
    /\ status = <<>>

----------------------------------------------------------------------------
(* Main thread *)

\* main: url_queue = get_queue(urls), then call check_website_status.
GetQueue ==
    /\ mainpc = "get_queue"
    /\ url_queue' = get_queue(urls)
    /\ mainpc' = "start"
    /\ UNCHANGED <<urls, threads, joined, stdout, stderr, dequeued,
                 task_done_calls, file, seeker, argv, args, status>>

\* check_website_status: one round of the for loop that starts the threads.
StartThread ==
    /\ mainpc = "start"
    /\ Len(threads) < ThreadCount
    /\ threads' = Append(threads, NewThread)
    /\ UNCHANGED <<urls, url_queue, mainpc, joined, stdout, stderr, dequeued,
                 task_done_calls, file, seeker, argv, args, status>>

\* check_website_status: the for loop is over, call url_queue.join().
StartDone ==
    /\ mainpc = "start"
    /\ ~(Len(threads) < ThreadCount)
    /\ mainpc' = "queue_join"
    /\ UNCHANGED <<urls, url_queue, threads, joined, stdout, stderr, dequeued,
                 task_done_calls, file, seeker, argv, args, status>>

\* url_queue.join() returns.
QueueJoin ==
    /\ mainpc = "queue_join"
    /\ JoinReady(url_queue)
    /\ mainpc' = "thread_join"
    /\ UNCHANGED <<urls, url_queue, threads, joined, stdout, stderr, dequeued,
                 task_done_calls, file, seeker, argv, args, status>>

\* thread.join() of the next thread of the list returns.
ThreadJoin ==
    /\ mainpc = "thread_join"
    /\ joined < Len(threads)
    /\ ThreadFinished(threads[joined + 1])
    /\ joined' = joined + 1
    /\ UNCHANGED <<urls, url_queue, threads, mainpc, stdout, stderr, dequeued,
                 task_done_calls, file, seeker, argv, args, status>>

\* check_website_status returns after the last thread.join().
Return ==
    /\ mainpc = "thread_join"
    /\ joined = Len(threads)
    /\ mainpc' = "returned"
    /\ UNCHANGED <<urls, url_queue, threads, joined, stdout, stderr, dequeued,
                 task_done_calls, file, seeker, argv, args, status>>

----------------------------------------------------------------------------
(* Worker thread i running get_status(url_queue) *)

\* while not q.empty(): enter the body, or leave the loop and return; the
\* locals of get_status end with its return.
WhileTest(i) ==
    /\ threads[i].pc = "while"
    /\ threads' = [threads EXCEPT
                      ![i].pc = IF Empty(url_queue) THEN "done" ELSE "get",
                      ![i].url = IF Empty(url_queue) THEN Unset ELSE threads[i].url]
    /\ UNCHANGED <<urls, url_queue, mainpc, joined, stdout, stderr, dequeued,
                 task_done_calls, file, seeker, argv, args, status>>

\* url = q.get()
Get(i) ==
    /\ threads[i].pc = "get"
    /\ GetReady(url_queue)
    /\ threads' = [threads EXCEPT ![i].pc = "request",
                                  ![i].url = GetItem(url_queue)]
    /\ url_queue' = GetRest(url_queue)
    /\ dequeued' = Append(dequeued, GetItem(url_queue))
    /\ UNCHANGED <<urls, mainpc, joined, stdout, stderr,
                 task_done_calls, file, seeker, argv, args, status>>

\* requests.get(url, timeout=5); response.raise_for_status()
Request(i) ==
    /\ threads[i].pc = "request"
    /\ \E o \in Outcomes :
          threads' = [threads EXCEPT ![i].pc = "report", ![i].outcome = o]
    /\ UNCHANGED <<urls, url_queue, mainpc, joined, stdout, stderr, dequeued,
                 task_done_calls, file, seeker, argv, args, status>>

\* Mutation: the line stays in a buffer, nothing reaches the stream.
Report_NoFlush(i) ==
    /\ threads[i].pc = "report"
    /\ threads' = [threads EXCEPT ![i].pc = "finally"]
    /\ UNCHANGED <<urls, url_queue, mainpc, joined, stdout, stderr, dequeued,
                 task_done_calls, file, seeker, argv, args, status>>

\* The except or else clause: write one line and flush.  The clause ends
\* with the exception it handled cleared; one that no clause handles stays
\* pending through the finally clause.
Report(i) ==
    /\ threads[i].pc = "report"
    /\ LET o == threads[i].outcome
           line == LineOf(o, threads[i].url)
       IN  /\ IF Escapes(o)
                 THEN UNCHANGED <<stdout, stderr>>
                 ELSE IF StreamOf(o) = "stdout"
                         THEN stdout' = Append(stdout, line) /\ UNCHANGED stderr
                         ELSE stderr' = Append(stderr, line) /\ UNCHANGED stdout
           /\ threads' = [threads EXCEPT
                             ![i].pc = "finally",
                             ![i].outcome = IF Escapes(o) THEN o ELSE Unset]
    /\ UNCHANGED <<urls, url_queue, mainpc, joined, dequeued,
                 task_done_calls, file, seeker, argv, args, status>>

\* finally: q.task_done(), then back to the loop test.  If task_done raises,
\* or an exception no clause handled is pending, the exception leaves
\* get_status: threading.excepthook then writes its report to sys.stderr,
\* one write a step with the other threads running in between, and the
\* thread ends after the last write, and its locals with it.  Until then
\* the local url stays bound, and the next q.get() rebinds it.
TaskDone(i) ==
    /\ threads[i].pc \in {"finally", "excepthook"}
    /\ IF threads[i].pc = "finally"
          THEN LET raises == TaskDoneRaises(url_queue)
                   dies == raises \/ threads[i].outcome # Unset
               IN  /\ task_done_calls' = task_done_calls + 1
                   /\ url_queue' = IF raises THEN url_queue
                                             ELSE TaskDoneQueue(url_queue)
                   /\ threads' = [threads EXCEPT
                         ![i].pc = IF dies THEN "excepthook" ELSE "while",
                         ![i].outcome = Unset,
                         ![i].report =
                             IF dies
                                 THEN ThreadExceptionReport(i,
                                          Frames(url_queue, threads[i].outcome),
                                          UncaughtError(url_queue, threads[i].outcome))
                                 ELSE <<>>]
                   /\ stderr' = stderr
          ELSE /\ threads' = [threads EXCEPT
                     ![i].pc = IF threads[i].report = <<>>
                                   THEN "died" ELSE "excepthook",
                     ![i].url = IF threads[i].report = <<>>
                                    THEN Unset ELSE threads[i].url,
                     ![i].report = IF threads[i].report = <<>>
                                       THEN <<>> ELSE Tail(threads[i].report)]
               /\ stderr' = IF threads[i].report = <<>>
                                THEN stderr
                                ELSE Append(stderr, Head(threads[i].report))
               /\ UNCHANGED <<url_queue, task_done_calls>>
    /\ UNCHANGED <<urls, mainpc, joined, stdout, dequeued, file, seeker, argv, args, status>>

Worker(i) ==
    \/ WhileTest(i)
    \/ Get(i)
    \/ Request(i)
    \/ Report(i)
    \/ TaskDone(i)

Main ==
    \/ GetQueue
    \/ StartThread
    \/ StartDone
    \/ QueueJoin
    \/ ThreadJoin
    \/ Return

Next ==
    \/ GetQueue
    \/ StartThread
    \/ StartDone
    \/ QueueJoin
    \/ ThreadJoin
    \/ Return
    \/ \E i \in 1..Len(threads) : WhileTest(i)
    \/ \E i \in 1..Len(threads) : Get(i)
    \/ \E i \in 1..Len(threads) : Request(i)
    \/ \E i \in 1..Len(threads) : Report(i)
    \/ \E i \in 1..Len(threads) : TaskDone(i)

Spec == Init /\ [][Next]_vars

\* The operating system schedules every thread that can run, and every
\* request returns or times out (timeout=5): a thread that can take a step
\* eventually takes one.
Fairness ==
    /\ WF_vars(Main)
    /\ \A i \in 1..ThreadCount : WF_vars(i <= Len(threads) /\ Worker(i))

FairSpec == Spec /\ Fairness

\* The scenario of 8 URLs on a pool of 4 (and the batches of 0 and 1 URL).
ScenarioUrls == [k \in 1..8 |-> "http://example.com"]

InitScenario ==
    /\ urls \in {SubSeq(ScenarioUrls, 1, n) : n \in {0, 1, Len(ScenarioUrls)}}
    /\ url_queue = NewQueue
    /\ threads = <<>>
    /\ mainpc = "get_queue"
    /\ joined = 0
    /\ stdout = <<>>
    /\ stderr = <<>>
    /\ dequeued = <<>>
    /\ task_done_calls = 0
    /\ file = ReadFile
    /\ seeker = SeekerIdle
    /\ argv = <<>>
    /\ args = [input |-> StrValue("urls.txt")]
    /\ status = <<>>

SpecScenario == InitScenario /\ [][Next]_vars

----------------------------------------------------------------------------
(* main from its first statement: parse_args, argparse on sys.argv[1:] *)

\* The printable ASCII characters in code point order, U+0020 to U+005F and
\* U+0061 to U+007E (U+0060 cannot be written in a string of this language).
AsciiLow ==
    <<" ", "!", "\"", "#", "$", "%", "&", "'", "(", ")", "*", "+", ",", "-",
      ".", "/", "0", "1", "2", "3", "4", "5", "6", "7", "8", "9", ":", ";",
      "<", "=", ">", "?", "@", "A", "B", "C", "D", "E", "F", "G", "H", "I",
      "J", "K", "L", "M", "N", "O", "P", "Q", "R", "S", "T", "U", "V", "W",
      "X", "Y", "Z", "[", "\\", "]", "^", "_">>

AsciiHigh ==
    <<"a", "b", "c", "d", "e", "f", "g", "h", "i", "j", "k", "l", "m", "n",
      "o", "p", "q", "r", "s", "t", "u", "v", "w", "x", "y", "z", "{", "|",
      "}", "~">>

\* ord(c) of a printable ASCII character; fnmatch orders the ends of a range
\* by it.
Ord(c) ==
    IF \E n \in DOMAIN AsciiLow : AsciiLow[n] = c
        THEN 31 + (CHOOSE n \in DOMAIN AsciiLow : AsciiLow[n] = c)
        ELSE 96 + (CHOOSE n \in DOMAIN AsciiHigh : AsciiHigh[n] = c)

\* parser.prog: the base name of sys.argv[0].
Prog == "wing.py"

\* parser.format_usage() and parser.format_help() of the parser parse_args
\* builds, on a terminal 80 columns wide.
Usage == "usage: " \o Prog \o " [-h] [-i INPUT]\n"

Help ==
    Usage \o "\nWebsite Status Checker Tool\n\noptions:\n"
        \o "  -h, --help            show this help message and exit\n"
        \o "  -i INPUT, --input INPUT\n"
        \o "                        File containing URLs to check their status.\n"

\* parser._option_string_actions in the order add_argument filled it: the
\* help option ArgumentParser adds itself, then the option of parse_args.
OptionStrings == <<"-h", "--help", "-i", "--input">>

\* The action an option string belongs to, named by its dest; NoAction is
\* the None of an option string the parser does not know.
NoAction == "None"
ActionOf(option_string) ==
    IF option_string \in {"-h", "--help"} THEN "help" ELSE "input"

\* The number of argument strings the action takes: nargs is 0 for the help
\* action and None, one argument, for --input.
ArgCount(action) == IF action = "help" THEN 0 ELSE 1

\* _get_action_name(action): its option strings joined by a slash.
ActionName(action) == IF action = "help" THEN "-h/--help" ELSE "-i/--input"

\* s[k], s[:k] and s[k:] of a string, its characters counted from 1.
CharAt(s, k) == SubSeq(s, k, k)
Before(s, k) == SubSeq(s, 1, k - 1)
After(s, k) == SubSeq(s, k + 1, Len(s))

\* s.startswith(prefix)
StartsWith(s, prefix) == Len(prefix) <= Len(s) /\ Before(s, Len(prefix) + 1) = prefix

\* s.find(c) + 1: the place of the first c in s, 0 when there is none.
Find(s, c) ==
    IF \E k \in 1..Len(s) : CharAt(s, k) = c
        THEN CHOOSE k \in 1..Len(s) :
                 CharAt(s, k) = c /\ \A j \in 1..(k - 1) : CharAt(s, j) # c
        ELSE 0

\* sep.join(strings)
RECURSIVE Join(_, _)
Join(strings, sep) ==
    IF strings = <<>> THEN ""
    ELSE IF Len(strings) = 1 THEN strings[1]
    ELSE strings[1] \o sep \o Join(Tail(strings), sep)

\* repr(s) of a string: in single quotes, or in double quotes when it holds
\* a single quote and no double quote; the backslash, the quote and the
\* control characters escaped.
Repr(s) ==
    LET quote == IF Find(s, "'") > 0 /\ Find(s, "\"") = 0 THEN "\"" ELSE "'"
        Escaped(c) ==
            CASE c = "\\" -> "\\\\"
              [] c = quote -> "\\" \o c
              [] c = "\n" -> "\\n"
              [] c = "\r" -> "\\r"
              [] c = "\t" -> "\\t"
              [] c = "\f" -> "\\x0c"
              [] OTHER -> c
        body[k \in 0..Len(s)] ==
            IF k = 0 THEN "" ELSE body[k - 1] \o Escaped(CharAt(s, k))
    IN  quote \o body[Len(s)] \o quote

\* Whether every character of s is one of 0 to 9.
Digits(s) ==
    \A k \in 1..Len(s) :
        CharAt(s, k) \in {"0", "1", "2", "3", "4", "5", "6", "7", "8", "9"}

\* parser._negative_number_matcher, the pattern ^-\d+$|^-\d*\.\d+$ ; the $
\* also matches before a newline that ends the string.
NegativeNumber(arg_string) ==
    LET s == IF Len(arg_string) > 0 /\ CharAt(arg_string, Len(arg_string)) = "\n"
                 THEN Before(arg_string, Len(arg_string))
                 ELSE arg_string
        number == After(s, 1)
    IN  /\ Len(s) > 0
        /\ CharAt(s, 1) = "-"
        /\ \/ Len(number) > 0 /\ Digits(number)
           \/ \E k \in 1..(Len(number) - 1) :
                 /\ CharAt(number, k) = "."
                 /\ Digits(Before(number, k))
                 /\ Digits(After(number, k))

\* What _parse_optional makes of an argument string: an argument 'A', an
\* option 'O' with its action, option string and explicit argument (none,
\* or the one string written in the same argument string), or the error of
\* an ambiguous abbreviation.
Argument == [kind |-> "A"]
Option(action, option_string, explicit_arg) ==
    [kind |-> "O", action |-> action, option_string |-> option_string,
     explicit_arg |-> explicit_arg]

\* _get_option_tuples: the options an argument string may abbreviate.  One
\* that starts with two dashes is split at its first "=" and matches the
\* option strings it is a prefix of; one with a single dash matches the
\* short option of its first two characters, the rest its explicit argument.
GetOptionTuples(arg_string) ==
    LET double == CharAt(arg_string, 2) = "-"
        eq == Find(arg_string, "=")
        option_prefix ==
            IF double /\ eq > 0 THEN Before(arg_string, eq) ELSE arg_string
        explicit_arg ==
            IF double /\ eq > 0 THEN <<After(arg_string, eq)>> ELSE <<>>
        Tuples(option_string) ==
            IF double
                THEN IF StartsWith(option_string, option_prefix)
                         THEN <<Option(ActionOf(option_string), option_string,
                                       explicit_arg)>>
                         ELSE <<>>
                ELSE IF option_string = Before(arg_string, 3)
                         THEN <<Option(ActionOf(option_string), option_string,
                                       <<After(arg_string, 2)>>)>>
                         ELSE IF StartsWith(option_string, option_prefix)
                                  THEN <<Option(ActionOf(option_string),
                                                option_string, <<>>)>>
                                  ELSE <<>>
        result[k \in 0..Len(OptionStrings)] ==
            IF k = 0 THEN <<>> ELSE result[k - 1] \o Tuples(OptionStrings[k])
    IN  result[Len(OptionStrings)]

\* parser._parse_optional(arg_string)
ParseOptional(arg_string) ==
    LET known == {OptionStrings[k] : k \in DOMAIN OptionStrings}
        eq == Find(arg_string, "=")
        option_tuples == GetOptionTuples(arg_string)
    IN  IF arg_string = "" THEN Argument
        ELSE IF CharAt(arg_string, 1) # "-" THEN Argument
        ELSE IF arg_string \in known
            THEN Option(ActionOf(arg_string), arg_string, <<>>)
        ELSE IF Len(arg_string) = 1 THEN Argument
        ELSE IF eq > 0 /\ Before(arg_string, eq) \in known
            THEN Option(ActionOf(Before(arg_string, eq)), Before(arg_string, eq),
                        <<After(arg_string, eq)>>)
        ELSE IF Len(option_tuples) > 1
            THEN [kind |-> "error",
                  message |-> "ambiguous option: " \o arg_string \o " could match "
                      \o Join([k \in DOMAIN option_tuples |->
                                  option_tuples[k].option_string], ", ")]
        ELSE IF Len(option_tuples) = 1 THEN option_tuples[1]
        ELSE IF NegativeNumber(arg_string) THEN Argument
        ELSE IF Find(arg_string, " ") > 0 THEN Argument
        ELSE Option(NoAction, arg_string, <<>>)

\* The first pass of _parse_known_args: every argument string up to the
\* first "--" goes through _parse_optional, the "--" is the separator '-'
\* and every string after it is an argument.
ArgStringsPattern(arg_strings) ==
    LET separators == {k \in DOMAIN arg_strings : arg_strings[k] = "--"}
        first == IF separators = {} THEN Len(arg_strings) + 1
                 ELSE CHOOSE k \in separators : \A j \in separators : k <= j
    IN  [k \in DOMAIN arg_strings |->
            IF k < first THEN ParseOptional(arg_strings[k])
            ELSE IF k = first THEN [kind |-> "-"]
            ELSE Argument]

\* ArgumentError(action, message) as parse_known_args hands it to error().
ArgumentError(action, message) ==
    [error |-> <<"argument " \o ActionName(action) \o ": " \o message>>]

\* consume_optional(start_index), the loop that takes the option at
\* start_index apart: the actions to take with their arguments and the index
\* to go on from, the argument string itself when no action knows it, or
\* the error raised.
RECURSIVE ConsumeOptional(_, _, _, _, _)
ConsumeOptional(arg_strings, pattern, start_index, option, action_tuples) ==
    IF option.action = NoAction
        THEN [error |-> <<>>, action_tuples |-> <<>>,
              extras |-> <<arg_strings[start_index]>>, stop |-> start_index + 1]
    ELSE IF option.explicit_arg # <<>>
        THEN LET explicit_arg == option.explicit_arg[1]
                 option_string == CharAt(option.option_string, 1)
                                      \o CharAt(explicit_arg, 1)
             IN  IF /\ ArgCount(option.action) = 0
                    /\ CharAt(option.option_string, 2) # "-"
                    /\ explicit_arg # ""
                     THEN IF \E k \in DOMAIN OptionStrings :
                                 OptionStrings[k] = option_string
                              THEN ConsumeOptional(arg_strings, pattern, start_index,
                                       Option(ActionOf(option_string), option_string,
                                              IF Len(explicit_arg) > 1
                                                  THEN <<After(explicit_arg, 1)>>
                                                  ELSE <<>>),
                                       Append(action_tuples,
                                              [action |-> option.action, args |-> <<>>]))
                              ELSE ArgumentError(option.action,
                                       "ignored explicit argument " \o Repr(explicit_arg))
                 ELSE IF ArgCount(option.action) = 1
                     THEN [error |-> <<>>,
                           action_tuples |->
                               Append(action_tuples,
                                      [action |-> option.action,
                                       args |-> <<explicit_arg>>]),
                           extras |-> <<>>, stop |-> start_index + 1]
                 ELSE ArgumentError(option.action,
                          "ignored explicit argument " \o Repr(explicit_arg))
    ELSE IF ArgCount(option.action) = 0
        THEN [error |-> <<>>,
              action_tuples |->
                  Append(action_tuples, [action |-> option.action, args |-> <<>>]),
              extras |-> <<>>, stop |-> start_index + 1]
    ELSE IF start_index + 1 <= Len(pattern) /\ pattern[start_index + 1].kind = "A"
        THEN [error |-> <<>>,
              action_tuples |->
                  Append(action_tuples,
                         [action |-> option.action,
                          args |-> <<arg_strings[start_index + 1]>>]),
              extras |-> <<>>, stop |-> start_index + 2]
    ELSE ArgumentError(option.action, "expected one argument")

\* _get_values for --input: the first "--" is taken out of the argument
\* strings, which leaves the one string, or no string and then the empty
\* list.
GetValues(arg_strings) ==
    IF arg_strings[1] = "--" THEN EmptyList ELSE StrValue(arg_strings[1])

\* The second pass of _parse_known_args from start_index on: the strings
\* before the next option are extras (the parser has no positional), the
\* option is consumed and its actions are taken in order, the help action
\* printing the help and exiting; the strings after the last option are
\* extras too.
RECURSIVE ParseKnownArgs(_, _, _, _, _)
ParseKnownArgs(arg_strings, pattern, start_index, input, extras) ==
    LET options == {k \in DOMAIN pattern : k >= start_index /\ pattern[k].kind = "O"}
        next == CHOOSE k \in options : \A j \in options : k <= j
        skipped == SubSeq(arg_strings, start_index, next - 1)
        consumed == ConsumeOptional(arg_strings, pattern, next, pattern[next], <<>>)
        tuples == consumed.action_tuples
    IN  IF options = {}
            THEN [result |-> "namespace", input |-> input,
                  extras |-> extras \o SubSeq(arg_strings, start_index, Len(arg_strings))]
        ELSE IF consumed.error # <<>>
            THEN [result |-> "error", message |-> consumed.error[1]]
        ELSE IF \E k \in DOMAIN tuples : tuples[k].action = "help"
            THEN [result |-> "help"]
        ELSE ParseKnownArgs(arg_strings, pattern, consumed.stop,
                 IF tuples = <<>> THEN input ELSE GetValues(tuples[Len(tuples)].args),
                 extras \o skipped \o consumed.extras)

\* parser.parse_args(): the namespace, or the exit of the process with what
\* was written first: on an error the usage and the message on sys.stderr
\* and status 2, for the help option the help on sys.stdout and status 0.
parse_args(arg_strings) ==
    LET pattern == ArgStringsPattern(arg_strings)
        errors == {k \in DOMAIN pattern : pattern[k].kind = "error"}
        Error(message) ==
            [exits |-> TRUE, status |-> 2, stdout |-> <<>>,
             stderr |-> <<Usage, Prog \o ": error: " \o message \o "\n">>]
        parsed == ParseKnownArgs(arg_strings, pattern, 1, StrValue("urls.txt"), <<>>)
    IN  IF errors # {}
            THEN Error(pattern[CHOOSE k \in errors : \A j \in errors : k <= j].message)
        ELSE IF parsed.result = "error" THEN Error(parsed.message)
        ELSE IF parsed.result = "help"
            THEN [exits |-> TRUE, status |-> 0, stdout |-> <<Help>>, stderr |-> <<>>]
        ELSE IF parsed.extras # <<>>
            THEN Error("unrecognized arguments: " \o Join(parsed.extras, " "))
        ELSE [exits |-> FALSE, input |-> parsed.input]

----------------------------------------------------------------------------
(* load_urls_from_file(args.input) *)

\* Longest line body, and most lines, of the URL files the model draws.
MaxLineLen == 2
MaxFileLines == 1

\* The text of the file is held as the code points, ord(c), of its
\* characters.  The characters the model draws for a line body: a, the
\* space, the no-break space U+00A0 and the em space U+2003.
LineChars == {97, 32, 160, 8195}

\* The characters str.strip() removes when called without argument, those
\* for which str.isspace() holds: U+0009 to U+000D, U+001C to U+0020, U+0085,
\* U+00A0, U+1680, U+2000 to U+200A, U+2028, U+2029, U+202F, U+205F, U+3000.
Whitespace ==
    (9..13) \cup (28..32) \cup {133, 160, 5760} \cup (8192..8202)
        \cup {8232, 8233, 8239, 8287, 12288}

\* str.lstrip(chars) and str.rstrip(chars) on a string given as its
\* sequence of characters.
RECURSIVE LStrip(_, _)
LStrip(cs, chars) ==
    IF cs # <<>> /\ Head(cs) \in chars THEN LStrip(Tail(cs), chars) ELSE cs

RECURSIVE RStrip(_, _)
RStrip(cs, chars) ==
    IF cs # <<>> /\ cs[Len(cs)] \in chars
        THEN RStrip(SubSeq(cs, 1, Len(cs) - 1), chars)
        ELSE cs

\* line.strip()
Strip(cs) == RStrip(LStrip(cs, Whitespace), Whitespace)

\* The code points a string of this language can hold: the tab, the line
\* feed, the form feed, the carriage return and printable ASCII but U+0060.
Representable == {9, 10, 12, 13} \cup (32..95) \cup (97..126)

\* chr(n) of such a code point.
Chr(n) ==
    CASE n = 9 -> "\t"
      [] n = 10 -> "\n"
      [] n = 12 -> "\f"
      [] n = 13 -> "\r"
      [] n \in 32..95 -> AsciiLow[n - 31]
      [] n \in 97..126 -> AsciiHigh[n - 96]

\* The string whose characters have the code points cs.
RECURSIVE Text(_)
Text(cs) == IF cs = <<>> THEN "" ELSE Chr(Head(cs)) \o Text(Tail(cs))

\* The string made of a sequence of characters.
RECURSIVE Str(_)
Str(cs) == IF cs = <<>> THEN "" ELSE Head(cs) \o Str(Tail(cs))

\* The lines iterating over the file may yield: a body and the line feed
\* that ends it, or a body alone (the end of a file that does not end with
\* a line feed).  The model keeps the lines whose URL it can hold.
FileLines ==
    LET bodies == UNION {SeqsOfLen(LineChars, n) : n \in 0..MaxLineLen}
    IN  {line \in {Append(body, 10) : body \in bodies} \cup (bodies \ {<<>>}) :
            \A k \in DOMAIN Strip(line) : Strip(line)[k] \in Representable}

\* The files main may be pointed at: one that cannot be opened, one that
\* opens but whose bytes are not text in the default encoding, or lines, of
\* which only the last may lack its line feed.
Files ==
    {[exists |-> FALSE, decodes |-> FALSE, lines |-> <<>>],
     [exists |-> TRUE, decodes |-> FALSE, lines |-> <<>>]} \cup
    {[exists |-> TRUE, decodes |-> TRUE, lines |-> ls] :
        ls \in {l \in UNION {SeqsOfLen(FileLines, n) : n \in 0..MaxFileLines} :
                   \A k \in 1..(Len(l) - 1) : l[k][Len(l[k])] = 10}}

\* Whether load_urls_from_file returns: args.input is a path (open() raises
\* TypeError for the empty list), open() finds the file and reading it
\* decodes; otherwise TypeError, OSError or UnicodeDecodeError leaves the
\* function.
Loads(input, f) == input.type = "str" /\ f.exists /\ f.decodes

\* load_urls_from_file: [line.strip() for line in file]
load_urls_from_file(lines) == [k \in DOMAIN lines |-> Text(Strip(lines[k]))]

\* What the interpreter prints for the exception that ends main.
Traceback == "Traceback (most recent call last): ...\n"

\* The command lines main is started with: sys.argv[1:].
ArgLists ==
    {<<>>, <<"--in=u.txt">>, <<"-i=--">>,
     <<"-h">>, <<"--bogus">>, <<"u.txt">>, <<"-i">>, <<"-hi">>, <<"-hx">>,
     <<"--=x">>, <<"-i", "u.txt", "--">>}

InitMain ==
    /\ argv \in ArgLists
    /\ args = NoArgs
    /\ status = <<>>
    /\ file \in Files
    /\ urls = <<>>
    /\ url_queue = NewQueue
    /\ threads = <<>>
    /\ mainpc = "parse_args"
    /\ joined = 0
    /\ stdout = <<>>
    /\ stderr = <<>>
    /\ dequeued = <<>>
    /\ task_done_calls = 0
    /\ seeker = SeekerIdle

\* args = parse_args(), the parser returns the namespace.
ParseArgs ==
    /\ mainpc = "parse_args"
    /\ ~parse_args(argv).exits
    /\ args' = [input |-> parse_args(argv).input]
    /\ mainpc' = "load"
    /\ UNCHANGED <<urls, url_queue, threads, joined, stdout, stderr, dequeued,
                   task_done_calls, file, seeker, argv, status>>

\* args = parse_args(), the parser writes its message and exits the
\* process (no other thread exists yet).
ParseArgsExits ==
    /\ mainpc = "parse_args"
    /\ parse_args(argv).exits
    /\ stdout' = stdout \o parse_args(argv).stdout
    /\ stderr' = stderr \o parse_args(argv).stderr
    /\ status' = <<parse_args(argv).status>>
    /\ mainpc' = "exited"
    /\ UNCHANGED <<urls, url_queue, threads, joined, dequeued,
                   task_done_calls, file, seeker, argv, args>>

\* urls = load_urls_from_file(args.input), the file opens and decodes.
LoadUrls ==
    /\ mainpc = "load"
    /\ Loads(args.input, file)
    /\ urls' = load_urls_from_file(file.lines)
    /\ file' = [file EXCEPT !.lines = <<>>]
    /\ mainpc' = "get_queue"
    /\ UNCHANGED <<url_queue, threads, joined, stdout, stderr, dequeued,
                   task_done_calls, seeker, argv, args, status>>

\* Mutation: the error of the load is swallowed and the list is empty.
LoadFails_Swallowed ==
    /\ mainpc = "load"
    /\ ~Loads(args.input, file)
    /\ mainpc' = "get_queue"
    /\ UNCHANGED <<urls, url_queue, threads, joined, stdout, stderr, dequeued,
                   task_done_calls, file, seeker, argv, args, status>>

\* open() raises, or reading the file does: the exception leaves
\* load_urls_from_file and main, and the interpreter reports it and exits
\* with status 1.
LoadFails ==
    /\ mainpc = "load"
    /\ ~Loads(args.input, file)
    /\ mainpc' = "aborted"
    /\ stderr' = Append(stderr, Traceback)
    /\ status' = <<1>>
    /\ UNCHANGED <<urls, url_queue, threads, joined, stdout, dequeued,
                   task_done_calls, file, seeker, argv, args>>

NextMain ==
    \/ ParseArgs
    \/ ParseArgsExits
    \/ LoadUrls
    \/ LoadFails
    \/ Next

SpecMain == InitMain /\ [][NextMain]_vars

----------------------------------------------------------------------------
(* seeker.py: the recursive file finder *)

\* Most entries in the directory tree the model draws.
MaxEntries == 3

\* Path.cwd() is /cwd; the file system holds nothing outside it.
Cwd == <<"c", "w", "d">>

\* The entries that may lie under the working directory: parent is the path
\* of the directory that holds the entry, relative to the working directory,
\* as the sequence of its component names; a name is its sequence of
\* characters.
Entries ==
    {[parent |-> <<>>, name |-> <<"a", ".", "p", "y">>, is_dir |-> FALSE],
     [parent |-> <<>>, name |-> <<"b", ".", "p", "y">>, is_dir |-> FALSE],
     [parent |-> <<>>, name |-> <<"c", ".", "t", "x", "t">>, is_dir |-> FALSE],
     [parent |-> <<>>, name |-> <<".", "p", "y">>, is_dir |-> FALSE],
     [parent |-> <<>>, name |-> <<"s", ".", "p", "y">>, is_dir |-> TRUE],
     [parent |-> << <<"s", ".", "p", "y">> >>,
      name |-> <<"e", ".", "p", "y">>, is_dir |-> FALSE]}

\* The values of the extension argument, as sequences of characters.
ExtensionArgs ==
    {<<"p", "y">>, <<".", "p", "y">>, <<".", ".", "p", "y">>, <<"m", "d">>,
     <<"p", "*">>, <<"[", "o", "-", "q", "]", "y">>, <<"p", "*", "*">>,
     <<"p", "y", "/">>, <<"p", "y", "/", "e", ".", "p", "y">>}

\* The directory trees: the entries, each directory's in the order scandir
\* lists them; an entry lies in the working directory or in a directory of
\* the tree.
Directories ==
    {d \in UNION {SeqsOfLen(Entries, n) : n \in 0..MaxEntries} :
        /\ \A j, k \in DOMAIN d : j # k => d[j] # d[k]
        /\ \A k \in DOMAIN d :
              \/ d[k].parent = <<>>
              \/ \E j \in DOMAIN d :
                    d[j].is_dir /\ Append(d[j].parent, d[j].name) = d[k].parent}

\* s[-1] and s[:-1]
Last(s) == s[Len(s)]
Front(s) == SubSeq(s, 1, Len(s) - 1)

\* c in s
Contains(s, c) == \E k \in DOMAIN s : s[k] = c

\* fnmatch.translate, the scan for the "]" that closes the set opened by
\* pat[1] = "[": the position of that "]", or 0 when there is none.  A "!"
\* right after the "[", and a "]" right after that, do not close the set.
ClassEnd(pat) ==
    LET a == IF 2 <= Len(pat) /\ pat[2] = "!" THEN 3 ELSE 2
        b == IF a <= Len(pat) /\ pat[a] = "]" THEN a + 1 ELSE a
        closing == {k \in b..Len(pat) : pat[k] = "]"}
    IN  IF closing = {} THEN 0
        ELSE CHOOSE k \in closing : \A m \in closing : k <= m

\* fnmatch.translate, the chunks of a set that holds a "-": the text from i
\* is cut at each "-" found from position k on, and the search resumes two
\* characters after the start of the next chunk.
RECURSIVE Chunks(_, _, _)
Chunks(stuff, i, k) ==
    LET dashes == {m \in k..Len(stuff) : stuff[m] = "-"}
    IN  IF dashes = {} THEN <<SubSeq(stuff, i, Len(stuff))>>
        ELSE LET m == CHOOSE x \in dashes : \A y \in dashes : x <= y
             IN  <<SubSeq(stuff, i, m - 1)>> \o Chunks(stuff, m + 1, m + 3)

\* fnmatch.translate: a last chunk that is empty gives its "-" back to the
\* chunk before it.
CloseChunks(chunks) ==
    IF Last(chunks) = <<>> /\ Len(chunks) > 1
        THEN Append(SubSeq(chunks, 1, Len(chunks) - 2),
                    Append(chunks[Len(chunks) - 1], "-"))
        ELSE chunks

\* fnmatch.translate, "Remove empty ranges": from the last chunk down, a
\* range whose start is above its end is dropped with both its ends, and the
\* two chunks become one.
RECURSIVE PruneRanges(_, _)
PruneRanges(chunks, k) ==
    IF k < 2 THEN chunks
    ELSE IF Ord(Last(chunks[k - 1])) > Ord(chunks[k][1])
            THEN PruneRanges(SubSeq(chunks, 1, k - 2)
                                \o <<Front(chunks[k - 1]) \o Tail(chunks[k])>>
                                \o SubSeq(chunks, k + 1, Len(chunks)),
                             k - 1)
            ELSE PruneRanges(chunks, k - 1)

\* The chunks of the set whose text between the brackets is stuff: one chunk
\* when it holds no "-", else a range runs from the last character of each
\* chunk to the first character of the next.
SetChunks(stuff) ==
    IF ~Contains(stuff, "-") THEN <<stuff>>
    ELSE LET chunks == CloseChunks(Chunks(stuff, 1,
                                          IF stuff[1] = "!" THEN 3 ELSE 2))
         IN  PruneRanges(chunks, Len(chunks))

\* Whether the regular expression fnmatch.translate builds for the set
\* matches character c: no character when nothing is left of the set, any
\* character when only "!" is left, the complement when it starts with "!".
InSet(c, stuff) ==
    LET chunks == SetChunks(stuff)
        negated == chunks[1] # <<>> /\ chunks[1][1] = "!"
        first == IF negated THEN Tail(chunks[1]) ELSE chunks[1]
        listed == Contains(first, c)
                     \/ \E k \in 2..Len(chunks) : Contains(chunks[k], c)
        ranged == \E k \in 1..(Len(chunks) - 1) :
                      /\ Ord(Last(chunks[k])) <= Ord(c)
                      /\ Ord(c) <= Ord(chunks[k + 1][1])
    IN  IF negated THEN ~(listed \/ ranged) ELSE (listed \/ ranged)

\* The match of _WildcardSelector: re.compile(fnmatch.translate(pat))
\* .fullmatch(name), case sensitive: "*" is any run of characters, "?" any
\* one character, "[...]" a closed set, every other character itself.
RECURSIVE FnMatch(_, _)
FnMatch(name, pat) ==
    IF pat = <<>> THEN name = <<>>
    ELSE IF Head(pat) = "*"
        THEN \/ FnMatch(name, Tail(pat))
             \/ name # <<>> /\ FnMatch(Tail(name), pat)
    ELSE IF name = <<>> THEN FALSE
    ELSE IF Head(pat) = "?" THEN FnMatch(Tail(name), Tail(pat))
    ELSE IF Head(pat) = "[" /\ ClassEnd(pat) # 0
        THEN /\ InSet(Head(name), SubSeq(pat, 2, ClassEnd(pat) - 1))
             /\ FnMatch(Tail(name), SubSeq(pat, ClassEnd(pat) + 1, Len(pat)))
    ELSE Head(name) = Head(pat) /\ FnMatch(Tail(name), Tail(pat))

\* str.split("/")
RECURSIVE Split(_, _)
Split(cs, part) ==
    IF cs = <<>> THEN <<part>>
    ELSE IF Head(cs) = "/" THEN <<part>> \o Split(Tail(cs), <<>>)
    ELSE Split(Tail(cs), Append(part, Head(cs)))

\* Path.glob, the parts of the pattern "**/*.<extension>": its components
\* without the empty ones and the "." ones, and an empty part at the end
\* when the pattern ends with the separator.
PatternParts(extension) ==
    LET pattern == <<"*", "*", "/", "*", ".">> \o extension
        kept(part) == part # <<>> /\ part # <<".">>
    IN  SelectSeq(Split(pattern, <<>>), kept)
            \o (IF Last(pattern) = "/" THEN << <<>> >> ELSE <<>>)

\* _make_selector raises ValueError for a part that holds "**" and more.
GlobRaises(extension) ==
    \E k \in DOMAIN PatternParts(extension) :
        LET part == PatternParts(extension)[k]
        IN  /\ part # <<"*", "*">>
            /\ \E m \in 1..(Len(part) - 1) : part[m] = "*" /\ part[m + 1] = "*"

\* _is_wildcard_pattern
IsWildcard(part) ==
    Contains(part, "*") \/ Contains(part, "?") \/ Contains(part, "[")

\* The absolute path a path relative to the working directory stands for,
\* ".." leading to the parent (the root is its own parent).
RECURSIVE ResolveFrom(_, _)
ResolveFrom(base, path) ==
    IF path = <<>> THEN base
    ELSE ResolveFrom(IF Head(path) = <<".", ".">>
                        THEN (IF base = <<>> THEN base ELSE Front(base))
                        ELSE Append(base, Head(path)),
                     Tail(path))

Resolve(path) == ResolveFrom(<<Cwd>>, path)

\* scandir(path): the entries of a directory, in listing order.
Children(tree, path) ==
    LET at == Resolve(path)
        under(e) == Len(at) >= 1 /\ at[1] = Cwd /\ e.parent = Tail(at)
    IN  IF at = <<>> THEN <<[parent |-> <<>>, name |-> Cwd, is_dir |-> TRUE]>>
        ELSE SelectSeq(tree, under)

\* Whether the absolute path at names an entry of the file system, and
\* whether it names a directory: the root, the working directory and the
\* entries of the tree.
ExistsAt(tree, at) ==
    \/ at = <<>>
    \/ at = <<Cwd>>
    \/ /\ at[1] = Cwd
       /\ \E k \in DOMAIN tree : Append(tree[k].parent, tree[k].name) = Tail(at)

IsDirAt(tree, at) ==
    \/ at = <<>>
    \/ at = <<Cwd>>
    \/ /\ at[1] = Cwd
       /\ \E k \in DOMAIN tree :
             tree[k].is_dir /\ Append(tree[k].parent, tree[k].name) = Tail(at)

\* os.stat(path) as the operating system walks it from the directory at,
\* one component at a time: each component is looked up in a directory,
\* ".." too, so a path through a missing entry or through a file names
\* nothing.  The entry reached, as <<its absolute path>>, or <<>>.
RECURSIVE Stat(_, _, _)
Stat(tree, at, path) ==
    IF path = <<>> THEN <<at>>
    ELSE IF ~IsDirAt(tree, at) THEN <<>>
    ELSE LET next == IF Head(path) = <<".", ".">>
                         THEN (IF at = <<>> THEN at ELSE Front(at))
                         ELSE Append(at, Head(path))
         IN  IF ExistsAt(tree, next) THEN Stat(tree, next, Tail(path)) ELSE <<>>

\* path.exists() and path.is_dir()
Exists(tree, path) == Stat(tree, <<Cwd>>, path) # <<>>

IsDir(tree, path) ==
    /\ Stat(tree, <<Cwd>>, path) # <<>>
    /\ IsDirAt(tree, Stat(tree, <<Cwd>>, path)[1])

\* _RecursiveWildcardSelector._iterate_directories: the directory, then each
\* of its subdirectories with all below it, in listing order.
RECURSIVE IterateDirectories(_, _)
RECURSIVE IterateEntries(_, _, _)
IterateDirectories(tree, path) ==
    <<path>> \o IterateEntries(tree, path, Children(tree, path))

IterateEntries(tree, path, entries) ==
    IF entries = <<>> THEN <<>>
    ELSE (IF Head(entries).is_dir
             THEN IterateDirectories(tree, Append(path, Head(entries).name))
             ELSE <<>>)
         \o IterateEntries(tree, path, Tail(entries))

\* The paths of a sequence, each at its first place only ("yielded").
RECURSIVE Distinct(_, _)
Distinct(paths, yielded) ==
    IF paths = <<>> THEN <<>>
    ELSE IF Head(paths) \in yielded THEN Distinct(Tail(paths), yielded)
    ELSE <<Head(paths)>> \o Distinct(Tail(paths), yielded \cup {Head(paths)})

\* selector._select_from(path): the paths under the directory path that the
\* parts of a pattern select.  No part left, or the empty last part: the
\* path itself; "**": every directory at or below path, then the rest; a
\* part with wildcards: the entries whose name matches (directories only
\* when parts follow); any other part: the entry of that name, if there.
RECURSIVE Select(_, _, _)
RECURSIVE SelectFromEach(_, _, _)
RECURSIVE SelectEntries(_, _, _, _)
Select(tree, parts, path) ==
    IF parts = <<>> \/ Head(parts) = <<>> THEN <<path>>
    ELSE IF Head(parts) = <<"*", "*">>
        THEN Distinct(SelectFromEach(tree, Tail(parts),
                                     IterateDirectories(tree, path)), {})
    ELSE IF IsWildcard(Head(parts))
        THEN SelectEntries(tree, parts, path, Children(tree, path))
    ELSE IF (IF Tail(parts) # <<>>
                THEN IsDir(tree, Append(path, Head(parts)))
                ELSE Exists(tree, Append(path, Head(parts))))
        THEN Select(tree, Tail(parts), Append(path, Head(parts)))
    ELSE <<>>

SelectFromEach(tree, parts, starts) ==
    IF starts = <<>> THEN <<>>
    ELSE Select(tree, parts, Head(starts))
            \o SelectFromEach(tree, parts, Tail(starts))

SelectEntries(tree, parts, path, entries) ==
    IF entries = <<>> THEN <<>>
    ELSE (IF /\ (Tail(parts) # <<>> => Head(entries).is_dir)
             /\ FnMatch(Head(entries).name, Head(parts))
             THEN Select(tree, Tail(parts), Append(path, Head(entries).name))
             ELSE <<>>)
         \o SelectEntries(tree, parts, path, Tail(entries))

\* str(path) of a path under the working directory.
RECURSIVE PathOf(_)
PathOf(path) ==
    IF path = <<>> THEN "/" \o Str(Cwd)
    ELSE PathOf(Front(path)) \o "/" \o Str(Last(path))

\* search_for_files: the paths path.glob("**/*.<extension>") yields, in the
\* order it yields them.
search_for_files(tree, extension) ==
    LET found == Select(tree, PatternParts(extension), <<>>)
    IN  [k \in DOMAIN found |-> PathOf(found[k])]

\* sanitize_extension: extension.lstrip(".")
sanitize_extension(extension) == LStrip(extension, {"."})

\* Mutation: the index is printed whatever the flag.
get_output_string_template_Always(index) ==
    <<"{index}", ": ", "{file_path}", " \n">>

\* get_output_string_template: the format string, as its literal parts and
\* replacement fields.
get_output_string_template(index) ==
    IF index
        THEN <<"{index}", ": ", "{file_path}", " \n">>
        ELSE <<"{file_path}", " \n">>

\* template.format(index=index, file_path=file_path)
RECURSIVE Format(_, _, _)
Format(template, index, file_path) ==
    IF template = <<>> THEN ""
    ELSE (CASE Head(template) = "{index}" -> Decimal(index)
            [] Head(template) = "{file_path}" -> file_path
            [] OTHER -> Head(template))
         \o Format(Tail(template), index, file_path)

----------------------------------------------------------------------------
(* seeker.py, main from its first statement: parse_args, argparse on       *)
(* sys.argv[1:]                                                            *)

\* list(s): a string as the sequence of its characters.
Chars(s) == [k \in 1..Len(s) |-> CharAt(s, k)]

\* parser.prog: the base name of sys.argv[0].
SeekerProg == "seeker.py"

\* parser.format_usage() and parser.format_help() of the parser parse_args
\* builds, on a terminal 80 columns wide.
SeekerUsage == "usage: " \o SeekerProg \o " [-h] [--index] extension\n"

SeekerHelp ==
    SeekerUsage \o "\npositional arguments:\n"
        \o "  extension    The extension to search for without the preceding (.) dot .\n"
        \o "\noptions:\n"
        \o "  -h, --help   show this help message and exit\n"
        \o "  --index, -i  Print the index of the file\n"

\* parser._option_string_actions in the order add_argument filled it: the
\* help option ArgumentParser adds itself, then the option of parse_args.
SeekerOptionStrings == <<"-h", "--help", "--index", "-i">>

\* The action an option string belongs to, named by its dest.  Both take no
\* argument string (nargs is 0 for the help and the store_true action).
SeekerActionOf(option_string) ==
    IF option_string \in {"-h", "--help"} THEN "help" ELSE "index"

\* _get_action_name(action): its option strings joined by a slash.
SeekerActionName(action) ==
    IF action = "help" THEN "-h/--help" ELSE "--index/-i"

\* _get_option_tuples: the options an argument string may abbreviate.  One
\* that starts with two dashes is split at its first "=" and matches the
\* option strings it is a prefix of; one with a single dash matches the
\* short option of its first two characters, the rest its explicit argument.
SeekerGetOptionTuples(arg_string) ==
    LET double == CharAt(arg_string, 2) = "-"
        eq == Find(arg_string, "=")
        option_prefix ==
            IF double /\ eq > 0 THEN Before(arg_string, eq) ELSE arg_string
        explicit_arg ==
            IF double /\ eq > 0 THEN <<After(arg_string, eq)>> ELSE <<>>
        Tuples(option_string) ==
            IF double
                THEN IF StartsWith(option_string, option_prefix)
                         THEN <<Option(SeekerActionOf(option_string),
                                       option_string, explicit_arg)>>
                         ELSE <<>>
                ELSE IF option_string = Before(arg_string, 3)
                         THEN <<Option(SeekerActionOf(option_string),
                                       option_string, <<After(arg_string, 2)>>)>>
                         ELSE IF StartsWith(option_string, option_prefix)
                                  THEN <<Option(SeekerActionOf(option_string),
                                                option_string, <<>>)>>
                                  ELSE <<>>
        result[k \in 0..Len(SeekerOptionStrings)] ==
            IF k = 0 THEN <<>>
            ELSE result[k - 1] \o Tuples(SeekerOptionStrings[k])
    IN  result[Len(SeekerOptionStrings)]

\* parser._parse_optional(arg_string)
SeekerParseOptional(arg_string) ==
    LET known == {SeekerOptionStrings[k] : k \in DOMAIN SeekerOptionStrings}
        eq == Find(arg_string, "=")
        option_tuples == SeekerGetOptionTuples(arg_string)
    IN  IF arg_string = "" THEN Argument
        ELSE IF CharAt(arg_string, 1) # "-" THEN Argument
        ELSE IF arg_string \in known
            THEN Option(SeekerActionOf(arg_string), arg_string, <<>>)
        ELSE IF Len(arg_string) = 1 THEN Argument
        ELSE IF eq > 0 /\ Before(arg_string, eq) \in known
            THEN Option(SeekerActionOf(Before(arg_string, eq)),
                        Before(arg_string, eq), <<After(arg_string, eq)>>)
        ELSE IF Len(option_tuples) > 1
            THEN [kind |-> "error",
                  message |-> "ambiguous option: " \o arg_string \o " could match "
                      \o Join([k \in DOMAIN option_tuples |->
                                  option_tuples[k].option_string], ", ")]
        ELSE IF Len(option_tuples) = 1 THEN option_tuples[1]
        ELSE IF NegativeNumber(arg_string) THEN Argument
        ELSE IF Find(arg_string, " ") > 0 THEN Argument
        ELSE Option(NoAction, arg_string, <<>>)

\* The first pass of _parse_known_args: every argument string up to the
\* first "--" goes through _parse_optional, the "--" is the separator '-'
\* and every string after it is an argument.
SeekerArgStringsPattern(arg_strings) ==
    LET separators == {k \in DOMAIN arg_strings : arg_strings[k] = "--"}
        first == IF separators = {} THEN Len(arg_strings) + 1
                 ELSE CHOOSE k \in separators : \A j \in separators : k <= j
    IN  [k \in DOMAIN arg_strings |->
            IF k < first THEN SeekerParseOptional(arg_strings[k])
            ELSE IF k = first THEN [kind |-> "-"]
            ELSE Argument]

\* consume_optional(start_index), the loop that takes the option at
\* start_index apart: the actions to take and the index to go on from, the
\* argument string itself when no action knows it, or the error raised.  No
\* option takes an argument: an explicit argument after a single-dash option
\* is read as more single-dash options, any other is an error.
RECURSIVE SeekerConsumeOptional(_, _, _, _)
SeekerConsumeOptional(arg_strings, start_index, option, action_tuples) ==
    IF option.action = NoAction
        THEN [error |-> <<>>, action_tuples |-> <<>>,
              extras |-> <<arg_strings[start_index]>>, stop |-> start_index + 1]
    ELSE IF option.explicit_arg # <<>>
        THEN LET explicit_arg == option.explicit_arg[1]
                 option_string == CharAt(option.option_string, 1)
                                      \o CharAt(explicit_arg, 1)
                 ignored ==
                     [error |-> <<"argument " \o SeekerActionName(option.action)
                                     \o ": ignored explicit argument "
                                     \o Repr(explicit_arg)>>]
             IN  IF CharAt(option.option_string, 2) # "-" /\ explicit_arg # ""
                     THEN IF \E k \in DOMAIN SeekerOptionStrings :
                                 SeekerOptionStrings[k] = option_string
                              THEN SeekerConsumeOptional(arg_strings, start_index,
                                       Option(SeekerActionOf(option_string),
                                              option_string,
                                              IF Len(explicit_arg) > 1
                                                  THEN <<After(explicit_arg, 1)>>
                                                  ELSE <<>>),
                                       Append(action_tuples, option.action))
                              ELSE ignored
                     ELSE ignored
    ELSE [error |-> <<>>, action_tuples |-> Append(action_tuples, option.action),
          extras |-> <<>>, stop |-> start_index + 1]

\* consume_positionals(start_index), the number of argument strings the
\* positional takes: those that '(-*A-*)' matches at the start of the rest
\* of the pattern, none when extension has been taken already.
MatchPositional(pattern, start_index, namespace) ==
    LET kind(k) == IF k <= Len(pattern) THEN pattern[k].kind ELSE ""
    IN  IF namespace.extension # <<>> THEN 0
        ELSE IF kind(start_index) = "A"
            THEN (IF kind(start_index + 1) = "-" THEN 2 ELSE 1)
        ELSE IF kind(start_index) = "-" /\ kind(start_index + 1) = "A" THEN 2
        ELSE 0

\* _get_values for extension: the first "--" is taken out of the argument
\* strings, which leaves the one string.
SeekerGetValues(arg_strings) ==
    IF arg_strings[1] = "--" THEN arg_strings[2] ELSE arg_strings[1]

\* The second pass of _parse_known_args from start_index on: the positional
\* takes the strings before the next option if it still can, else they are
\* extras; the option is consumed and its actions are taken in order, the
\* help action printing the help and exiting; after the last option the
\* positional takes what it can and the rest are extras.  The namespace
\* holds extension as <<>> until the positional is taken.
RECURSIVE SeekerParseKnownArgs(_, _, _, _, _)
SeekerParseKnownArgs(arg_strings, pattern, start_index, namespace, extras) ==
    LET options == {k \in DOMAIN pattern : k >= start_index /\ pattern[k].kind = "O"}
        next == CHOOSE k \in options : \A j \in options : k <= j
        arg_count == MatchPositional(pattern, start_index, namespace)
        taken ==
            IF arg_count = 0 THEN namespace
            ELSE [namespace EXCEPT !.extension =
                     <<SeekerGetValues(SubSeq(arg_strings, start_index,
                                              start_index + arg_count - 1))>>]
        consumed == SeekerConsumeOptional(arg_strings, next, pattern[next], <<>>)
        tuples == consumed.action_tuples
    IN  IF options = {}
            THEN [result |-> "namespace", namespace |-> taken,
                  extras |-> extras \o SubSeq(arg_strings, start_index + arg_count,
                                              Len(arg_strings))]
        ELSE IF start_index # next /\ arg_count > 0
            THEN SeekerParseKnownArgs(arg_strings, pattern,
                                      start_index + arg_count, taken, extras)
        ELSE IF consumed.error # <<>>
            THEN [result |-> "error", message |-> consumed.error[1]]
        ELSE IF \E k \in DOMAIN tuples : tuples[k] = "help"
            THEN [result |-> "help"]
        ELSE SeekerParseKnownArgs(arg_strings, pattern, consumed.stop,
                 [namespace EXCEPT !.index = namespace.index \/ tuples # <<>>],
                 extras \o SubSeq(arg_strings, start_index, next - 1)
                        \o consumed.extras)

\* parse_args of seeker.py: the namespace, or the exit of the process with
\* what was written first: on an error the usage and the message on
\* sys.stderr and status 2, for the help option the help on sys.stdout and
\* status 0.
seeker_parse_args(arg_strings) ==
    LET pattern == SeekerArgStringsPattern(arg_strings)
        errors == {k \in DOMAIN pattern : pattern[k].kind = "error"}
        Error(message) ==
            [exits |-> TRUE, status |-> 2, stdout |-> <<>>,
             stderr |-> <<SeekerUsage,
                          SeekerProg \o ": error: " \o message \o "\n">>]
        parsed == SeekerParseKnownArgs(arg_strings, pattern, 1,
                                       [extension |-> <<>>, index |-> FALSE], <<>>)
    IN  IF errors # {}
            THEN Error(pattern[CHOOSE k \in errors : \A j \in errors : k <= j].message)
        ELSE IF parsed.result = "error" THEN Error(parsed.message)
        ELSE IF parsed.result = "help"
            THEN [exits |-> TRUE, status |-> 0, stdout |-> <<SeekerHelp>>,
                  stderr |-> <<>>]
        ELSE IF parsed.namespace.extension = <<>>
            THEN Error("the following arguments are required: extension")
        ELSE IF parsed.extras # <<>>
            THEN Error("unrecognized arguments: " \o Join(parsed.extras, " "))
        ELSE [exits |-> FALSE,
              args |-> Namespace(Chars(parsed.namespace.extension[1]),
                                 parsed.namespace.index)]

\* The command lines seeker.py is started with, sys.argv[1:]: each extension
\* alone, with -i before it and with --index after it, and command lines
\* argparse answers itself.
SeekerArgLists ==
    {<<Str(x)>> : x \in ExtensionArgs}
        \cup {<<"-i", Str(x)>> : x \in ExtensionArgs}
        \cup {<<Str(x), "--index">> : x \in ExtensionArgs}
        \cup {<<>>, <<"-h">>, <<"-ih">>, <<"py", "-h">>, <<"py", "md">>,
              <<"--bogus", "py">>, <<"--index=x", "py">>, <<"-ix", "py">>,
              <<"--=x">>, <<"--">>, <<"--", "py">>, <<"--i", "py", "--">>}

InitSeeker ==
    /\ seeker \in {[SeekerIdle EXCEPT !.directory = d] : d \in Directories}
    /\ argv \in SeekerArgLists
    /\ mainpc = "seeker_parse_args"
    /\ stdout = <<>>
    /\ stderr = <<>>
    /\ urls = <<>>
    /\ url_queue = NewQueue
    /\ threads = <<>>
    /\ joined = 0
    /\ dequeued = <<>>
    /\ task_done_calls = 0
    /\ file = ReadFile
    /\ args = NoArgs
    /\ status = <<>>

\* args = parse_args(), the parser returns the namespace.
SeekerParseArgs ==
    /\ mainpc = "seeker_parse_args"
    /\ ~seeker_parse_args(argv).exits
    /\ seeker' = [seeker EXCEPT !.args = seeker_parse_args(argv).args]
    /\ mainpc' = "seeker_main"
    /\ UNCHANGED <<urls, url_queue, threads, joined, stdout, stderr, dequeued,
                   task_done_calls, file, argv, args, status>>

\* args = parse_args(), the parser writes its message and exits the
\* process: main's args is never bound and nothing is searched.
SeekerParseArgsExits ==
    /\ mainpc = "seeker_parse_args"
    /\ seeker_parse_args(argv).exits
    /\ stdout' = stdout \o seeker_parse_args(argv).stdout
    /\ stderr' = stderr \o seeker_parse_args(argv).stderr
    /\ seeker' = [seeker EXCEPT !.status = seeker_parse_args(argv).status]
    /\ mainpc' = "seeker_exited"
    /\ UNCHANGED <<urls, url_queue, threads, joined, dequeued,
                   task_done_calls, file, argv, args, status>>

\* What the interpreter prints for the ValueError that ends seeker's main.
GlobTraceback ==
    "Traceback (most recent call last): ...\n"
        \o "ValueError: Invalid pattern: '**' can only be an entire path component\n"

\* main from parse_args' return up to the for statement: sanitize the
\* extension, choose the template, start the search.
SeekerStart ==
    /\ mainpc = "seeker_main"
    /\ ~GlobRaises(sanitize_extension(seeker.args.extension))
    /\ LET extension == sanitize_extension(seeker.args.extension)
       IN  seeker' = [seeker EXCEPT
                         !.extension = Str(extension),
                         !.file_count = 0,
                         !.template = get_output_string_template(seeker.args.index),
                         !.pending = search_for_files(seeker.directory, extension)]
    /\ mainpc' = "seeker_loop"
    /\ UNCHANGED <<urls, url_queue, threads, joined, stdout, stderr, dequeued,
                   task_done_calls, file, argv, args, status>>

\* main from parse_args' return up to the for statement when glob rejects
\* the pattern: the ValueError leaves search_for_files and main at the
\* first round of the loop, the interpreter reports it and the exit status
\* is 1.
SeekerGlobFails ==
    /\ mainpc = "seeker_main"
    /\ GlobRaises(sanitize_extension(seeker.args.extension))
    /\ seeker' = [seeker EXCEPT
                      !.extension = Str(sanitize_extension(seeker.args.extension)),
                      !.file_count = 0,
                      !.template = get_output_string_template(seeker.args.index),
                      !.status = 1]
    /\ stderr' = Append(stderr, GlobTraceback)
    /\ mainpc' = "seeker_exited"
    /\ UNCHANGED <<urls, url_queue, threads, joined, stdout, dequeued,
                   task_done_calls, file, argv, args, status>>

\* One round of the for loop: count the file and write its line.
SeekerWrite ==
    /\ mainpc = "seeker_loop"
    /\ seeker.pending # <<>>
    /\ seeker' = [seeker EXCEPT !.file_count = seeker.file_count + 1,
                                !.pending = Tail(seeker.pending)]
    /\ stdout' = Append(stdout, Format(seeker.template, seeker.file_count + 1,
                                       Head(seeker.pending)))
    /\ UNCHANGED <<urls, url_queue, threads, mainpc, joined, stderr, dequeued,
                   task_done_calls, file, argv, args, status>>

\* After the loop: write_to_stderr_and_exit(args.extension) when no file was
\* found, else main returns and the exit status is 0.
SeekerFinish ==
    /\ mainpc = "seeker_loop"
    /\ seeker.pending = <<>>
    /\ IF seeker.file_count = 0
          THEN /\ stderr' = Append(stderr, "Error: No Files Found with extension ."
                                               \o Str(seeker.args.extension))
               /\ seeker' = [seeker EXCEPT !.status = 1]
          ELSE /\ UNCHANGED stderr
               /\ seeker' = [seeker EXCEPT !.status = 0]
    /\ mainpc' = "seeker_exited"
    /\ UNCHANGED <<urls, url_queue, threads, joined, stdout, dequeued,
                   task_done_calls, file, argv, args, status>>

NextSeeker ==
    \/ SeekerParseArgs
    \/ SeekerParseArgsExits
    \/ SeekerStart
    \/ SeekerGlobFails
    \/ SeekerWrite
    \/ SeekerFinish

SpecSeeker == InitSeeker /\ [][NextSeeker]_vars

----------------------------------------------------------------------------
(* Vocabulary of the properties *)

\* Number of positions of sequence s that hold an element of S.
Count(s, S) == Cardinality({k \in DOMAIN s : s[k] \in S})

\* The lines that report url, whatever the outcome.
LinesFor(url) == {LineOf(o, url) : o \in Outcomes}

\* Lines written for url so far, over both streams.
Written(url) == Count(stdout, LinesFor(url)) + Count(stderr, LinesFor(url))

\* url_queue.join() has returned to check_website_status.
JoinUnblocked == mainpc \in {"thread_join", "returned"}

\* The threads between q.get() and q.task_done(): each holds one item.
Holding == {i \in 1..Len(threads) : threads[i].pc \in {"request", "report", "finally"}}

\* The threads still running get_status.
Live == {i \in 1..Len(threads) : ~ThreadFinished(threads[i])}

\* Number of q.task_done() calls so far (once the queue is built).
Acknowledged == Len(urls) - url_queue.unfinished_tasks

----------------------------------------------------------------------------
(* Properties of the worker pool *)

\* C1: once url_queue.join() has unblocked, every URL has exactly as many
\* output lines, over stdout and stderr together, as it has occurrences in
\* the enqueued list, and there are no other lines.
C1_OneLinePerUrl ==
    JoinUnblocked =>
        /\ \A u \in URLS : Written(u) = Count(urls, {u})
        /\ Len(stdout) + Len(stderr) = Len(urls)

\* A list with the same URL twice has been processed, with lines on both
\* streams, and the join has unblocked.
C1_Witness ==
    /\ JoinUnblocked
    /\ Len(urls) >= 2
    /\ urls[1] = urls[2]
    /\ stdout # <<>>
    /\ stderr # <<>>

\* C3: no enqueued item is handed to two workers: for every URL, the
\* occurrences returned by q.get() so far plus those still pending are
\* exactly the occurrences enqueued, and each thread between get and
\* task_done holds one of the returned items.
C3_NoDoubleHandout ==
    mainpc # "get_queue" =>
        /\ \A u \in URLS :
              Count(dequeued, {u}) + Count(url_queue.items, {u}) = Count(urls, {u})
        /\ \A u \in URLS :
              Cardinality({i \in Holding : threads[i].url = u}) <= Count(dequeued, {u})
        /\ Cardinality(Holding) <= Len(dequeued)

\* Two workers hold the two occurrences of the same URL at the same time.
C3_Witness ==
    /\ Len(urls) >= 2
    /\ urls[1] = urls[2]
    /\ \E i, j \in Holding : i # j /\ threads[i].url = threads[j].url

\* C4: url_queue.join() never unblocks while an enqueued item is still
\* pending or is held by a worker that has not acknowledged it.
C4_JoinOnlyWhenDrained ==
    JoinUnblocked =>
        /\ url_queue.items = <<>>
        /\ Holding = {}
        /\ Len(dequeued) = Len(urls)
        /\ Acknowledged = Len(urls)

\* The join has unblocked on a batch of two items, before any thread is
\* joined.
C4_Witness ==
    /\ mainpc = "thread_join"
    /\ Len(urls) >= 2
    /\ joined = 0

\* C5: check_website_status returns only when the queue is drained and
\* every thread it started has finished.
C5_ReturnsAfterAllFinished ==
    mainpc = "returned" =>
        /\ \A i \in 1..Len(threads) : threads[i].pc = "done"
        /\ Len(threads) = ThreadCount
        /\ joined = Len(threads)
        /\ url_queue.items = <<>>
        /\ url_queue.unfinished_tasks = 0

\* check_website_status has returned from a non-empty batch.
C5_Witness ==
    /\ mainpc = "returned"
    /\ Len(urls) >= 1
    /\ Len(stdout) + Len(stderr) = Len(urls)

\* C7: every dequeued item is acknowledged exactly once by the worker that
\* took it, whatever the outcome: the items not yet acknowledged are exactly
\* those pending and those held by a worker inside its try statement.
C7_AckExactlyOnce ==
    mainpc # "get_queue" =>
        /\ url_queue.unfinished_tasks = Len(url_queue.items) + Cardinality(Holding)
        /\ Acknowledged = Len(stdout) + Len(stderr)
                          - Cardinality({i \in Holding : threads[i].pc = "finally"})

\* A worker has acknowledged an item whose check failed, another item is
\* still unacknowledged.
C7_Witness ==
    /\ stderr # <<>>
    /\ Acknowledged >= 1
    /\ url_queue.unfinished_tasks >= 1
    /\ \E i \in 1..Len(threads) : threads[i].pc = "while"

\* C2: under fair scheduling every worker thread eventually terminates and
\* check_website_status eventually returns.
C2_EveryWorkerTerminates ==
    <>(mainpc = "returned" /\ \A i \in 1..Len(threads) : threads[i].pc = "done")

\* C6: a failed check stays inside the worker that hit it: no thread ever
\* dies of an exception or reports one, a worker leaves the clause that
\* handles a failed check with no exception pending and the main thread
\* undisturbed, it leaves the finally clause for the loop test, and once the
\* join has unblocked on a batch with failures every URL has been dequeued,
\* reported and acknowledged.
C6_FailureContained ==
    /\ [](\A i \in 1..Len(threads) : threads[i].pc \notin {"excepthook", "died"})
    /\ [][\A i \in 1..Len(threads) :
             /\ (threads[i].pc = "report" /\ threads[i].outcome # "Success"
                    /\ threads'[i].pc # "report")
                => (threads'[i].pc = "finally" /\ threads'[i].outcome = Unset
                      /\ mainpc' = mainpc)
             /\ (threads[i].pc = "finally" /\ threads'[i].pc # "finally")
                => (threads'[i].pc = "while" /\ mainpc' = mainpc)]_vars
    /\ []((JoinUnblocked /\ stderr # <<>>) =>
             /\ Len(dequeued) = Len(urls)
             /\ Len(stdout) + Len(stderr) = Len(urls)
             /\ url_queue.unfinished_tasks = 0)

\* The only thread started so far has reported a failure and is checking
\* the next URL.
C6_Witness ==
    /\ Len(threads) = 1
    /\ stderr # <<>>
    /\ threads[1].pc = "request"

\* C8: the step that reports a URL writes the line of its outcome to the
\* stream of its outcome and leaves the other stream alone; nothing else
\* writes to either stream.
C8_OutputByOutcome ==
    [][/\ \A i \in 1..Len(threads) :
             (threads[i].pc = "report" /\ threads'[i].pc # "report") =>
                LET u == threads[i].url
                    o == threads[i].outcome
                IN  /\ o = "Success" =>
                          /\ stdout' = Append(stdout, "Successfully connected to " \o u \o "\n")
                          /\ stderr' = stderr
                    /\ o = "HTTPError" =>
                          /\ stderr' = Append(stderr, "HTTP error occurred for " \o u \o "\n")
                          /\ stdout' = stdout
                    /\ o = "OtherError" =>
                          /\ stderr' = Append(stderr, "Error occurred for " \o u \o "\n")
                          /\ stdout' = stdout
       /\ (stdout' # stdout \/ stderr' # stderr) =>
             \E i \in 1..Len(threads) :
                 threads[i].pc = "report" /\ threads'[i].pc = "finally"]_vars

\* A reachable URL and one answering with an HTTP error status have both
\* been reported.
C8_Witness ==
    /\ stdout = <<"Successfully connected to http://example.com\n">>
    /\ stderr = <<"HTTP error occurred for not-a-url\n">>

\* C9: with an empty URL list no line is written, no worker ever calls
\* q.get() (each leaves the loop at its first test), and under fair
\* scheduling check_website_status returns.
C9_EmptyBatch ==
    /\ [](urls = <<>> =>
             /\ stdout = <<>>
             /\ stderr = <<>>
             /\ dequeued = <<>>
             /\ \A i \in 1..Len(threads) : threads[i].pc \in {"while", "done"})
    /\ (urls = <<>>) ~> (mainpc = "returned")

\* check_website_status has returned from the empty batch, its four
\* threads done.
C9_Witness ==
    /\ urls = <<>>
    /\ mainpc = "returned"
    /\ Len(threads) = 4
    /\ \A i \in 1..Len(threads) : threads[i].pc = "done"

\* C10: check_website_status starts exactly 4 threads: never more than 4
\* are started, live, or inside a request, all 4 are started before the
\* queue is joined, and a batch of 8 URLs is completely reported and
\* acknowledged when the join unblocks.
C10_FourWorkers ==
    /\ Len(threads) <= 4
    /\ Cardinality(Live) <= 4
    /\ Cardinality({i \in 1..Len(threads) : threads[i].pc = "request"}) <= 4
    /\ (mainpc \notin {"get_queue", "start"} => Len(threads) = 4)
    /\ (JoinUnblocked /\ Len(urls) = 8 =>
            /\ Len(stdout) + Len(stderr) = 8
            /\ Acknowledged = 8)

\* check_website_status has returned from the batch of 8 URLs, all 8
\* reported.
C10_Witness ==
    /\ Len(urls) = 8
    /\ mainpc = "returned"
    /\ Len(stdout) + Len(stderr) = 8

\* C11: a worker that calls q.get() always finds an item: no thread is ever
\* at q.get() while the queue is empty.
C11_GetNeverOnEmptyQueue ==
    \A i \in 1..Len(threads) : threads[i].pc = "get" => GetReady(url_queue)

\* C12: under fair scheduling every enqueued URL is eventually dequeued and
\* acknowledged and url_queue.join() eventually unblocks.
C12_JoinEventuallyUnblocks ==
    <>(/\ JoinUnblocked
       /\ Len(dequeued) = Len(urls)
       /\ Acknowledged = Len(urls))

\* The join has unblocked on a batch of two URLs although a worker is
\* blocked in q.get().
C12_Witness ==
    /\ mainpc = "thread_join"
    /\ Len(urls) = 2
    /\ \E i \in 1..Len(threads) : threads[i].pc = "get"

\* C13: when a worker acknowledges an item its line is already on its
\* stream, so the acknowledgments never outnumber the lines, and no line is
\* written once url_queue.join() has unblocked.
C13_LineBeforeAck ==
    /\ [][url_queue'.unfinished_tasks < url_queue.unfinished_tasks =>
             \E i \in 1..Len(threads) :
                 /\ threads[i].pc = "finally"
                 /\ threads'[i].pc # "finally"
                 /\ Written(threads[i].url) >= 1]_vars
    /\ [](mainpc # "get_queue" => Acknowledged <= Len(stdout) + Len(stderr))
    /\ [][JoinUnblocked => (stdout' = stdout /\ stderr' = stderr)]_vars

\* The join has unblocked with every line written while a worker has not
\* yet left its loop.
C13_Witness ==
    /\ JoinUnblocked
    /\ Len(urls) >= 1
    /\ Len(stdout) + Len(stderr) = Len(urls)
    /\ \E i \in 1..Len(threads) : threads[i].pc = "while"

\* C14: the items returned by q.get(), in the order of the calls, are a
\* prefix of the URL list, and the pending items are the rest of it.
C14_FifoOrder ==
    mainpc # "get_queue" =>
        /\ Len(dequeued) <= Len(urls)
        /\ dequeued = SubSeq(urls, 1, Len(dequeued))
        /\ dequeued \o url_queue.items = urls

\* Two different URLs have been dequeued by two different workers.
C14_Witness ==
    /\ Len(dequeued) = 2
    /\ dequeued[1] # dequeued[2]
    /\ Cardinality(Holding) = 2

\* C17: unfinished_tasks is the number of items put minus the number of
\* task_done calls, the task_done calls never outnumber the completed get
\* calls nor the items put, and task_done never raises.
C17_UnfinishedCount ==
    /\ mainpc = "get_queue" => task_done_calls = 0
    /\ mainpc # "get_queue" =>
          /\ url_queue.unfinished_tasks = Len(urls) - task_done_calls
          /\ task_done_calls <= Len(dequeued)
          /\ task_done_calls <= Len(urls)
    /\ \A i \in 1..Len(threads) : threads[i].pc \notin {"excepthook", "died"}

\* Both items of a batch of two have been acknowledged.
C17_Witness ==
    /\ Len(urls) = 2
    /\ task_done_calls = 2
    /\ url_queue.unfinished_tasks = 0

\* C18: the items dequeued and not yet acknowledged are one per worker inside
\* its try statement, so they are at most 4, and the pending, in-flight and
\* acknowledged items add up to the items enqueued.
C18_InFlightAtMostFour ==
    mainpc # "get_queue" =>
        /\ Len(dequeued) - task_done_calls = Cardinality(Holding)
        /\ Len(dequeued) - task_done_calls <= 4
        /\ Len(url_queue.items) + (Len(dequeued) - task_done_calls) + task_done_calls
               = Len(urls)

\* Four items are in flight, others are pending and others acknowledged.
C18_Witness ==
    /\ Len(dequeued) - task_done_calls = 4
    /\ Len(url_queue.items) >= 1
    /\ task_done_calls >= 1

\* C15: when parse_args has returned and the URL file cannot be loaded (it
\* does not open, it does not decode, or args.input is no path), main never
\* gets past the load: the run aborts with the queue not built, no thread
\* started, no URL dequeued and no status line written (stderr holds nothing
\* but the interpreter's report of the error) and the exit status is 1; and
\* no run aborts that way but on a failed load.
C15_LoadFailureAborts ==
    /\ (mainpc \notin {"parse_args", "exited"}
           /\ ~(args.input.type = "str" /\ file.exists /\ file.decodes)) =>
          /\ mainpc \in {"load", "aborted"}
          /\ urls = <<>>
          /\ url_queue = [items |-> <<>>, unfinished_tasks |-> 0]
          /\ threads = <<>>
          /\ dequeued = <<>>
          /\ stdout = <<>>
          /\ \A k \in DOMAIN stderr : stderr[k] = Traceback
          /\ mainpc = "aborted" => status = <<1>>
    /\ mainpc = "aborted" =>
          ~(args.input.type = "str" /\ file.exists /\ file.decodes)

\* The run has aborted on a file that cannot be opened.
C15_Witness ==
    /\ ~file.exists
    /\ mainpc = "aborted"
    /\ threads = <<>>

----------------------------------------------------------------------------
(* Properties of seeker.py *)

\* The paths search_for_files yields in a run, in discovery order; none
\* when parse_args exits instead of returning and none when glob rejects
\* the pattern.
FilesFound ==
    IF seeker_parse_args(argv).exits THEN <<>>
    ELSE LET extension ==
                 sanitize_extension(seeker_parse_args(argv).args.extension)
         IN  IF GlobRaises(extension) THEN <<>>
             ELSE search_for_files(seeker.directory, extension)

\* The decimal numerals of the line numbers the model reaches.
Numeral == <<"1", "2", "3", "4", "5", "6", "7", "8", "9">>

\* The No Files Found error of write_to_stderr_and_exit is on sys.stderr.
NoFilesFoundWritten ==
    \E k \in DOMAIN stderr :
        StartsWith(stderr[k], "Error: No Files Found with extension .")

\* C16 as stated: every stdout line carries its index 1..n, one line per
\* file found; the No Files Found error and exit status 1 if and only if no
\* file was found; nothing on stderr when a file was found.
C16_AlwaysNumbered ==
    /\ Len(stdout) <= Len(FilesFound)
    /\ \A k \in DOMAIN stdout :
          stdout[k] = Numeral[k] \o ": " \o FilesFound[k] \o " \n"
    /\ mainpc = "seeker_exited" =>
          /\ Len(stdout) = Len(FilesFound)
          /\ (NoFilesFoundWritten /\ seeker.status = 1) <=> Len(FilesFound) = 0
          /\ Len(FilesFound) > 0 => stderr = <<>>

\* How a run that has exited got there: parse_args exited with a usage
\* error or with the help, glob rejected the pattern, or the search ran.
RunEnded ==
    IF ~seeker.args.bound
        THEN IF seeker.status = 0 THEN "help" ELSE "usage error"
    ELSE IF GlobRaises(sanitize_extension(seeker.args.extension))
        THEN "invalid pattern"
    ELSE "searched"

\* C16 amended: when parse_args returns and glob accepts the pattern, one
\* stdout line per path found, in discovery order, carrying the index 1..n
\* when --index is given and the path alone otherwise, the No Files Found
\* error naming the extension as given and exit status 1 exactly when no
\* path was found, and nothing on stderr when one was.  The other runs find
\* no path and write no No Files Found error: a command line argparse
\* rejects ends with the usage and the error on stderr and status 2, the
\* help option with the help on stdout and status 0, a pattern glob rejects
\* with the interpreter's report of the ValueError on stderr and status 1.
C16_NumberedWhenAsked ==
    /\ mainpc # "seeker_exited" =>
          /\ stderr = <<>>
          /\ Len(stdout) <= Len(FilesFound)
          /\ \A k \in DOMAIN stdout :
                stdout[k] = (IF seeker.args.index THEN Numeral[k] \o ": " ELSE "")
                               \o FilesFound[k] \o " \n"
    /\ (mainpc = "seeker_exited" /\ RunEnded = "searched") =>
          /\ Len(stdout) = Len(FilesFound)
          /\ \A k \in DOMAIN stdout :
                stdout[k] = (IF seeker.args.index THEN Numeral[k] \o ": " ELSE "")
                               \o FilesFound[k] \o " \n"
          /\ Len(FilesFound) = 0 =>
                /\ stderr = <<"Error: No Files Found with extension ."
                                 \o Str(seeker.args.extension)>>
                /\ seeker.status = 1
          /\ Len(FilesFound) > 0 =>
                /\ stderr = <<>>
                /\ seeker.status = 0
    /\ (mainpc = "seeker_exited" /\ RunEnded = "usage error") =>
          /\ stdout = <<>>
          /\ Len(stderr) = 2
          /\ stderr[1] = SeekerUsage
          /\ StartsWith(stderr[2], "seeker.py: error: ")
          /\ seeker.status = 2
    /\ (mainpc = "seeker_exited" /\ RunEnded = "help") =>
          /\ stdout = <<SeekerHelp>>
          /\ stderr = <<>>
    /\ (mainpc = "seeker_exited" /\ RunEnded = "invalid pattern") =>
          /\ stdout = <<>>
          /\ stderr = <<GlobTraceback>>
          /\ seeker.status = 1
    /\ (mainpc = "seeker_exited" /\ RunEnded # "searched") =>
          /\ FilesFound = <<>>
          /\ ~NoFilesFoundWritten

\* A run with --index has exited after finding two files, out of a tree
\* that also holds a file of another extension.
C16_Witness ==
    /\ mainpc = "seeker_exited"
    /\ seeker.args.bound
    /\ seeker.args.index
    /\ Len(stdout) = 2
    /\ Len(seeker.directory) = 3
    /\ stderr = <<>>

====
